---- MODULE Spec2Model ----
(***************************************************************************)
(* Rule identity utilities of                                              *)
(* public/app/features/alerting/unified/utils/rules.ts:                    *)
(* the ruler-rule classifiers, the content fingerprint (hashRulerRule),    *)
(* the identifier codec (stringifyRuleIdentifier / parseRuleIdentifier)    *)
(* and getRuleIdentifier.                                                  *)
(*                                                                         *)
(* A JavaScript string is modelled as a sequence of one-character strings, *)
(* so that replace, split, join, String and Number are computed character  *)
(* by character.                                                           *)
(***************************************************************************)
EXTENDS Integers, Sequences, FiniteSets, TLC

VARIABLES
    location,   \* codec: the RuleIdentifier handed to stringifyRuleIdentifier
    key,        \* codec: the string stringifyRuleIdentifier returned
    parsed,     \* codec: the outcome of parseRuleIdentifier(key)
    rule,       \* rules: the RulerRuleDTO under examination
    rule2,      \* rules: a second record, derived from rule by one edit
    classes,    \* rules: the answers of the three classifiers for rule
    fp,         \* rules: the outcome of hashRulerRule(rule)
    fp2,        \* rules: the outcome of hashRulerRule(rule2)
    derived     \* rules: the outcome of getRuleIdentifier(..., rule)

vars == <<location, key, parsed, rule, rule2, classes, fp, fp2, derived>>

\* A variable that holds nothing yet.
NoValue == [kind |-> "none"]

\* A JavaScript number: an integer n, or NaN.
Num(n) == [nan |-> FALSE, val |-> n]

NaN == [nan |-> TRUE, val |-> 0]

(***************************************************************************)
(* Bounds                                                                  *)
(***************************************************************************)
\* The longest string field, counted in atoms of StringAtoms.
MaxAtoms == 4

\* The most entries of a label or annotation mapping.
MaxEntries == 2

(***************************************************************************)
(* Strings                                                                 *)
(***************************************************************************)
\* The sentinel escapeDollars writes for a '$'.
Placeholder == <<"_", "D", "O", "L", "L", "A", "R", "_">>

RECURSIVE Concat(_)
\* The concatenation of a sequence of strings.
Concat(ss) == IF ss = <<>> THEN <<>> ELSE Head(ss) \o Concat(Tail(ss))

\* Whether string s holds string t at position i.
OccursAt(s, t, i) ==
    /\ i >= 1
    /\ i + Len(t) - 1 <= Len(s)
    /\ SubSeq(s, i, i + Len(t) - 1) = t

\* Whether string t is a substring of string s.
Contains(s, t) == \E i \in 1..(Len(s) + 1) : OccursAt(s, t, i)

\* The number of '$' characters of s.
CountDollars(s) == Cardinality({i \in 1..Len(s) : s[i] = "$"})

Digits == <<"0", "1", "2", "3", "4", "5", "6", "7", "8", "9">>

\* The value of a decimal digit character.
DigitValue(c) == CHOOSE d \in 0..9 : Digits[d + 1] = c

IsDigit(c) == \E d \in 0..9 : Digits[d + 1] = c

RECURSIVE NatToString(_)
\* The decimal digits of a natural number, without leading zeros.
NatToString(n) ==
    IF n < 10 THEN <<Digits[n + 1]>>
    ELSE NatToString(n \div 10) \o <<Digits[(n % 10) + 1]>>

\* String(x) for a number x, as .map(String) applies it to ruleHash.
NumberToString(x) ==
    IF x.nan THEN <<"N", "a", "N">>
    ELSE IF x.val < 0 THEN <<"-">> \o NatToString(0 - x.val)
    ELSE NatToString(x.val)

RECURSIVE DigitsToNat(_, _)
\* The value of a string of decimal digits, read left to right.
DigitsToNat(s, acc) ==
    IF s = <<>> THEN acc
    ELSE DigitsToNat(Tail(s), 10 * acc + DigitValue(Head(s)))

AllDigits(s) == s # <<>> /\ \A i \in 1..Len(s) : IsDigit(s[i])

\* Number(s) for a string s, over the characters the model's strings use:
\* the empty string is 0, an optionally signed run of decimal digits is its
\* value, and any other string is NaN.
StringToNumber(s) ==
    IF s = <<>> THEN Num(0)
    ELSE IF AllDigits(s) THEN Num(DigitsToNat(s, 0))
    ELSE IF Head(s) = "-" /\ AllDigits(Tail(s)) THEN Num(0 - DigitsToNat(Tail(s), 0))
    ELSE IF Head(s) = "+" /\ AllDigits(Tail(s)) THEN Num(DigitsToNat(Tail(s), 0))
    ELSE NaN

(***************************************************************************)
(* The identifier codec                                                    *)
(***************************************************************************)
isGrafanaRuleIdentifier(loc) == "uid" \in DOMAIN loc

isCloudRuleIdentifier(loc) == "ruleSourceName" \in DOMAIN loc

\* escapeDollars with a regular expression that lacks the g flag: only the
\* first '$' is replaced.
escapeDollarsFirstOnly(value) ==
    IF \E i \in 1..Len(value) : value[i] = "$"
    THEN LET i == CHOOSE j \in 1..Len(value) :
                      value[j] = "$" /\ \A k \in 1..(j - 1) : value[k] # "$"
         IN  SubSeq(value, 1, i - 1) \o Placeholder \o SubSeq(value, i + 1, Len(value))
    ELSE value

\* escapeDollars that leaves the value as it is.
escapeDollarsNone(value) == value

RECURSIVE escapeDollars(_)
\* value.replace(/\$/g, '_DOLLAR_')
escapeDollars(value) ==
    IF value = <<>> THEN <<>>
    ELSE IF Head(value) = "$" THEN Placeholder \o escapeDollars(Tail(value))
    ELSE <<Head(value)>> \o escapeDollars(Tail(value))

\* unesacapeDollars with a regular expression that lacks the g flag: only the
\* first placeholder is replaced.
unesacapeDollarsFirstOnly(value) ==
    IF Contains(value, Placeholder)
    THEN LET i == CHOOSE j \in 1..Len(value) :
                      /\ OccursAt(value, Placeholder, j)
                      /\ \A k \in 1..(j - 1) : ~OccursAt(value, Placeholder, k)
         IN  SubSeq(value, 1, i - 1) \o <<"$">>
                 \o SubSeq(value, i + Len(Placeholder), Len(value))
    ELSE value

RECURSIVE unesacapeDollars(_)
\* value.replace(/\_DOLLAR\_/g, '$'): the matches are taken left to right and
\* do not overlap.
unesacapeDollars(value) ==
    IF value = <<>> THEN <<>>
    ELSE IF OccursAt(value, Placeholder, 1)
         THEN <<"$">> \o unesacapeDollars(SubSeq(value, Len(Placeholder) + 1, Len(value)))
    ELSE <<Head(value)>> \o unesacapeDollars(Tail(value))

RECURSIVE Join(_, _)
\* parts.join(sep)
Join(parts, sep) ==
    IF parts = <<>> THEN <<>>
    ELSE IF Len(parts) = 1 THEN parts[1]
    ELSE parts[1] \o sep \o Join(Tail(parts), sep)

RECURSIVE SplitFrom(_, _, _)
\* The parts of s after the part cur, which is being read.
SplitFrom(s, sep, cur) ==
    IF s = <<>> THEN <<cur>>
    ELSE IF Head(s) = sep THEN <<cur>> \o SplitFrom(Tail(s), sep, <<>>)
    ELSE SplitFrom(Tail(s), sep, Append(cur, Head(s)))

\* s.split(sep) for a one-character separator: one part more than s holds
\* separators, the empty string giving one empty part.
Split(s, sep) == SplitFrom(s, sep, <<>>)

\* An operation's outcome: the value it returned, or the error it threw.
Returned(v) == [kind |-> "returned", value |-> v]

Threw(msg, arg) == [kind |-> "threw", message |-> msg, input |-> arg]

\* stringifyRuleIdentifier that escapes the uid of a Native identifier too.
stringifyEscapingUid(loc) ==
    IF isGrafanaRuleIdentifier(loc) THEN escapeDollars(loc.uid)
    ELSE LET fields == <<loc.ruleSourceName, loc.namespace, loc.groupName,
                         NumberToString(loc.ruleHash)>>
         IN  Join([i \in 1..4 |-> escapeDollars(fields[i])], <<"$">>)

stringifyRuleIdentifier(loc) ==
    IF isGrafanaRuleIdentifier(loc) THEN loc.uid
    ELSE LET fields == <<loc.ruleSourceName, loc.namespace, loc.groupName,
                         NumberToString(loc.ruleHash)>>
         IN  Join([i \in 1..4 |-> escapeDollars(fields[i])], <<"$">>)

\* parseRuleIdentifier that takes any four or more parts for a Composite
\* identifier.
parseAtLeastFourParts(loc) ==
    LET parts == Split(loc, "$")
    IN  IF Len(parts) = 1 THEN Returned([uid |-> loc])
        ELSE IF Len(parts) >= 4
        THEN LET u == [i \in 1..4 |-> unesacapeDollars(parts[i])]
             IN  Returned([ruleSourceName |-> u[1], namespace |-> u[2],
                           groupName |-> u[3], ruleHash |-> StringToNumber(u[4])])
        ELSE Threw("Failed to parse rule location", loc)

parseRuleIdentifier(loc) ==
    LET parts == Split(loc, "$")
    IN  IF Len(parts) = 1 THEN Returned([uid |-> loc])
        ELSE IF Len(parts) = 4
        THEN LET u == [i \in 1..4 |-> unesacapeDollars(parts[i])]
             IN  Returned([ruleSourceName |-> u[1], namespace |-> u[2],
                           groupName |-> u[3], ruleHash |-> StringToNumber(u[4])])
        ELSE Threw("Failed to parse rule location", loc)

(***************************************************************************)
(* Inputs of the codec                                                     *)
(***************************************************************************)
\* The pieces the model's string fields are built from: the delimiter, the
\* fragments of the placeholder, and a digit.
StringAtoms == {<<"$">>, <<"_">>, <<"D", "O", "L", "L", "A", "R">>,
                <<"_", "D", "O", "L", "L", "A", "R">>, <<"7">>}

RECURSIVE StringsUpTo(_)
\* The strings made of at most n atoms.
StringsUpTo(n) ==
    IF n = 0 THEN {<<>>}
    ELSE LET shorter == StringsUpTo(n - 1)
         IN  shorter \cup {s \o a : s \in shorter, a \in StringAtoms}

LongStrings == StringsUpTo(MaxAtoms)

\* The two other string fields and the ruleHash that accompany a long field.
Companions ==
    { <<<<>>, <<>>, Num(0)>>,
      <<<<"$">>, <<"n", "s">>, Num(7)>>,
      <<<<"g", "r", "p">>, <<"$", "$">>, Num(0 - 1204)>>,
      <<Placeholder, <<"m", "i", "m", "i", "r", "-", "1">>, Num(305)>> }

NativeIdentifiers == {[uid |-> u] : u \in LongStrings}

\* Composite identifiers: each string field in turn ranges over the long
\* strings.
CompositeIdentifiers ==
    LET Make(src, ns, grp, h) == [ruleSourceName |-> src, namespace |-> ns,
                                  groupName |-> grp, ruleHash |-> h]
    IN  {Make(l, c[1], c[2], c[3]) : l \in LongStrings, c \in Companions}
        \cup {Make(c[1], l, c[2], c[3]) : l \in LongStrings, c \in Companions}
        \cup {Make(c[1], c[2], l, c[3]) : l \in LongStrings, c \in Companions}

RuleIdentifiers == NativeIdentifiers \cup CompositeIdentifiers

(***************************************************************************)
(* The codec as a state machine: a caller holds an identifier, turns it    *)
(* into a key and parses the key back.                                     *)
(***************************************************************************)
RulesIdle ==
    /\ rule = NoValue
    /\ rule2 = NoValue
    /\ classes = NoValue
    /\ fp = NoValue
    /\ fp2 = NoValue
    /\ derived = NoValue

Init ==
    /\ location \in RuleIdentifiers
    /\ key = NoValue
    /\ parsed = NoValue
    /\ RulesIdle

Stringify ==
    /\ key = NoValue
    /\ key' = Returned(stringifyRuleIdentifier(location))
    /\ UNCHANGED <<location, parsed, rule, rule2, classes, fp, fp2, derived>>

Parse ==
    /\ key # NoValue
    /\ parsed = NoValue
    /\ parsed' = parseRuleIdentifier(key.value)
    /\ UNCHANGED <<location, key, rule, rule2, classes, fp, fp2, derived>>

Next == Stringify \/ Parse

Spec == Init /\ [][Next]_vars

(***************************************************************************)
(* Ruler rules: classifiers and fingerprint                                *)
(*                                                                         *)
(* A RulerRuleDTO is a record whose domain is the set of fields the object *)
(* has.  A label or annotation mapping is the sequence of its <<key,       *)
(* value>> entries in insertion order, as Object.entries lists them.  An   *)
(* optional value is <<>> when it is undefined and <<v>> when it is v.     *)
(***************************************************************************)
\* rule[name], or undefined when the object has no such field.
Field(r, name) == IF name \in DOMAIN r THEN <<r[name]>> ELSE <<>>

isAlertingRulerRule(r) == "alert" \in DOMAIN r

isRecordingRulerRule(r) == "record" \in DOMAIN r

\* isGrafanaRulerRule that looks for the uid on the rule itself.
isGrafanaRulerRuleByUid(r) == "uid" \in DOMAIN r

\* typeof rule === 'object' holds of every record; an undefined rule is
\* not one.
isGrafanaRulerRule(r) == "grafana_alert" \in DOMAIN r

\* A character that is one precomposed letter decomposes into the letter and
\* its combining mark; every other character is its own decomposition.
Decompose(c) == IF c = "U+00E9" THEN <<"e", "U+0301">> ELSE <<c>>

\* The characters label keys are made of, in collation order.
CollationOrder == <<"U+0301", "a", "e", "m", "n", "t", "v">>

CharRank(c) == CHOOSE i \in 1..Len(CollationOrder) : CollationOrder[i] = c

\* The canonical decomposition of a string.
CollationKey(s) == Concat([i \in 1..Len(s) |-> Decompose(s[i])])

RECURSIVE CompareKeys(_, _)
\* Lexicographic comparison of two collation keys: -1, 0 or 1.
CompareKeys(a, b) ==
    IF a = <<>> /\ b = <<>> THEN 0
    ELSE IF a = <<>> THEN 0 - 1
    ELSE IF b = <<>> THEN 1
    ELSE IF CharRank(Head(a)) < CharRank(Head(b)) THEN 0 - 1
    ELSE IF CharRank(Head(a)) > CharRank(Head(b)) THEN 1
    ELSE CompareKeys(Tail(a), Tail(b))

\* a.localeCompare(b): a total preorder on strings that returns 0 for
\* canonically equivalent strings, as ECMAScript requires of it.
localeCompare(a, b) == CompareKeys(CollationKey(a), CollationKey(b))

\* sorted with e put before the first entry that compares greater than e.
InsertEntry(sorted, e) ==
    LET greater == {i \in 1..Len(sorted) : localeCompare(sorted[i][1], e[1]) > 0}
        at      == IF greater = {} THEN Len(sorted) + 1
                   ELSE CHOOSE i \in greater : \A j \in greater : i <= j
    IN  SubSeq(sorted, 1, at - 1) \o <<e>> \o SubSeq(sorted, at, Len(sorted))

RECURSIVE SortEntries(_)
\* entries.sort((a, b) => a[0].localeCompare(b[0])): a stable sort.
SortEntries(entries) ==
    IF entries = <<>> THEN <<>>
    ELSE InsertEntry(SortEntries(SubSeq(entries, 1, Len(entries) - 1)),
                     entries[Len(entries)])

\* The JSON text of one character inside a string literal.
JsonEscape(c) ==
    IF c = "\"" THEN <<"\\", "\"">>
    ELSE IF c = "\\" THEN <<"\\", "\\">>
    ELSE <<c>>

\* JSON.stringify of a string.
JsonString(s) == <<"\"">> \o Concat([i \in 1..Len(s) |-> JsonEscape(s[i])]) \o <<"\"">>

\* JSON.stringify of an array whose elements have the JSON texts items.
JsonArray(items) == <<"[">> \o Join(items, <<",">>) \o <<"]">>

\* JSON.stringify of an array element that is a string or undefined.
JsonElement(opt) == IF opt = <<>> THEN <<"n", "u", "l", "l">> ELSE JsonString(opt[1])

hashLabelsOrAnnotations(item) ==
    LET entries == IF item = <<>> THEN <<>> ELSE item[1]
        sorted  == SortEntries(entries)
    IN  JsonArray([i \in 1..Len(sorted) |->
                      JsonArray(<<JsonString(sorted[i][1]), JsonString(sorted[i][2])>>)])

\* hash(value) of ./misc: a deterministic function from strings to integers,
\* taken to give distinct strings distinct integers.
hash(value) == [hashOf |-> value]

\* An outcome together with the strings hash was called on to reach it.
ReturnedAfter(v, calls) == [kind |-> "returned", value |-> v, hashed |-> calls]

ThrewAfter(msg, calls) == [kind |-> "threw", message |-> msg, hashed |-> calls]

\* hashRulerRule that gives a record that is neither recording nor alerting
\* the fingerprint of its expr and labels.
hashRulerRuleNoThrow(r) ==
    LET input == IF isRecordingRulerRule(r)
                 THEN JsonArray(<<JsonElement(Field(r, "record")),
                                  JsonElement(Field(r, "expr")),
                                  JsonString(hashLabelsOrAnnotations(Field(r, "labels")))>>)
                 ELSE IF isAlertingRulerRule(r)
                 THEN JsonArray(<<JsonElement(Field(r, "alert")),
                                  JsonElement(Field(r, "expr")),
                                  JsonString(hashLabelsOrAnnotations(Field(r, "annotations"))),
                                  JsonString(hashLabelsOrAnnotations(Field(r, "labels")))>>)
                 ELSE JsonArray(<<JsonElement(Field(r, "expr")),
                                  JsonString(hashLabelsOrAnnotations(Field(r, "labels")))>>)
    IN  ReturnedAfter(hash(input), <<input>>)

\* hashRulerRule whose alerting branch serialises the labels twice and the
\* annotations never.
hashRulerRuleLabelsTwice(r) ==
    IF isRecordingRulerRule(r)
    THEN LET input == JsonArray(<<JsonElement(Field(r, "record")),
                                  JsonElement(Field(r, "expr")),
                                  JsonString(hashLabelsOrAnnotations(Field(r, "labels")))>>)
         IN  ReturnedAfter(hash(input), <<input>>)
    ELSE IF isAlertingRulerRule(r)
    THEN LET input == JsonArray(<<JsonElement(Field(r, "alert")),
                                  JsonElement(Field(r, "expr")),
                                  JsonString(hashLabelsOrAnnotations(Field(r, "labels"))),
                                  JsonString(hashLabelsOrAnnotations(Field(r, "labels")))>>)
         IN  ReturnedAfter(hash(input), <<input>>)
    ELSE ThrewAfter("only recording and alerting ruler rules can be hashed", <<>>)

hashRulerRule(r) ==
    IF isRecordingRulerRule(r)
    THEN LET input == JsonArray(<<JsonElement(Field(r, "record")),
                                  JsonElement(Field(r, "expr")),
                                  JsonString(hashLabelsOrAnnotations(Field(r, "labels")))>>)
         IN  ReturnedAfter(hash(input), <<input>>)
    ELSE IF isAlertingRulerRule(r)
    THEN LET input == JsonArray(<<JsonElement(Field(r, "alert")),
                                  JsonElement(Field(r, "expr")),
                                  JsonString(hashLabelsOrAnnotations(Field(r, "annotations"))),
                                  JsonString(hashLabelsOrAnnotations(Field(r, "labels")))>>)
         IN  ReturnedAfter(hash(input), <<input>>)
    ELSE ThrewAfter("only recording and alerting ruler rules can be hashed", <<>>)

\* getRuleIdentifier that fingerprints every record that can be hashed and
\* falls back to the uid.
getRuleIdentifierHashFirst(ruleSourceName, namespace, groupName, r) ==
    LET h == hashRulerRule(r)
    IN  IF h.kind = "returned"
        THEN ReturnedAfter([ruleSourceName |-> ruleSourceName, namespace |-> namespace,
                            groupName |-> groupName, ruleHash |-> h.value], h.hashed)
        ELSE IF isGrafanaRulerRule(r)
        THEN ReturnedAfter([uid |-> r.grafana_alert.uid], <<>>)
        ELSE h

getRuleIdentifier(ruleSourceName, namespace, groupName, r) ==
    IF isGrafanaRulerRule(r)
    THEN ReturnedAfter([uid |-> r.grafana_alert.uid], <<>>)
    ELSE LET h == hashRulerRule(r)
         IN  IF h.kind = "threw" THEN h
             ELSE ReturnedAfter([ruleSourceName |-> ruleSourceName, namespace |-> namespace,
                                 groupName |-> groupName, ruleHash |-> h.value], h.hashed)

(***************************************************************************)
(* Inputs of the rule operations                                           *)
(***************************************************************************)
\* The record with the fields of opts that are not undefined.
MakeRule(opts) == [f \in {g \in DOMAIN opts : opts[g] # <<>>} |-> opts[f][1]]

AlertNames == {<<"H", "i", "g", "h">>, <<"L", "o", "w">>}

RecordNames == {<<"c", "p", "u", ":", "a">>, <<"c", "p", "u", ":", "b">>}

Exprs == {<<"u", "p">>, <<"u", "p", "=", "=", "0">>}

\* Label keys: an ASCII key, and one key in its precomposed and in its
\* decomposed spelling.
LabelKeys == {<<"t", "e", "a", "m">>, <<"U+00E9">>, <<"e", "U+0301">>}

LabelValues == {<<"1">>, <<"\"", ",">>}

HasKey(m, k) == \E i \in 1..Len(m) : m[i][1] = k

RECURSIVE MappingsUpTo(_)
\* The mappings of at most n entries, keys unique, in every insertion order.
MappingsUpTo(n) ==
    IF n = 0 THEN {<<>>}
    ELSE LET shorter == MappingsUpTo(n - 1)
         IN  shorter \cup
             {Append(t[1], <<t[2], t[3]>>) :
                 t \in {u \in shorter \X LabelKeys \X LabelValues : ~HasKey(u[1], u[2])}}

\* A labels or annotations field: undefined, or any mapping.
AnyMapping == {<<>>} \cup {<<m>> : m \in MappingsUpTo(MaxEntries)}

\* A labels or annotations field: undefined, empty, or one entry.
FewMappings == {<<>>, <<<<>>>>, << <<<<<<"t", "e", "a", "m">>, <<"1">>>>>> >>}

\* The records hashRulerRule is written for: recording rules (record, expr,
\* labels) and alerting rules (alert, expr, labels, annotations).
LotexRules ==
    {MakeRule([record |-> <<n>>, expr |-> <<e>>, labels |-> l]) :
        n \in RecordNames, e \in {<<"u", "p">>}, l \in AnyMapping}
    \cup
    {MakeRule([alert |-> <<n>>, expr |-> <<e>>, labels |-> l, annotations |-> a]) :
        n \in AlertNames, e \in {<<"u", "p">>}, l \in AnyMapping, a \in FewMappings}
    \cup
    {MakeRule([alert |-> <<n>>, expr |-> <<e>>, labels |-> l, annotations |-> a]) :
        n \in AlertNames, e \in {<<"u", "p">>}, l \in FewMappings, a \in AnyMapping}

\* The rearrangements of sequence m.
Rearrangements(m) ==
    {[i \in 1..Len(m) |-> m[q[i]]] :
        q \in {f \in [1..Len(m) -> 1..Len(m)] :
                  \A i, j \in 1..Len(m) : f[i] = f[j] => i = j}}

\* Mapping m with the value of one entry changed.
ValueChanges(m) ==
    {[m EXCEPT ![i] = <<m[i][1], v>>] :
        i \in 1..Len(m), v \in LabelValues} \ {m}

\* Rule r with its field f set to each value of vs but the one it has.
Changed(r, f, vs) ==
    IF f \in DOMAIN r THEN {[r EXCEPT ![f] = v] : v \in vs \ {r[f]}} ELSE {}

\* The records that differ from r by one edit: another expr, another name,
\* one other label or annotation value, or the same labels or annotations
\* inserted in another order.
Edits(r) ==
    Changed(r, "expr", Exprs)
    \cup Changed(r, "record", RecordNames)
    \cup Changed(r, "alert", AlertNames)
    \cup (IF "labels" \in DOMAIN r
          THEN Changed(r, "labels", ValueChanges(r.labels) \cup Rearrangements(r.labels))
          ELSE {})
    \cup (IF "annotations" \in DOMAIN r
          THEN Changed(r, "annotations",
                       ValueChanges(r.annotations) \cup Rearrangements(r.annotations))
          ELSE {})

\* Records with every combination of the distinguishing fields.
AnyShapeRules ==
    {MakeRule([alert |-> a, record |-> r, grafana_alert |-> g, expr |-> <<e>>,
               labels |-> l, annotations |-> l2]) :
        a \in {<<>>} \cup {<<n>> : n \in {<<"H", "i", "g", "h">>}},
        r \in {<<>>} \cup {<<n>> : n \in {<<"c", "p", "u", ":", "a">>}},
        g \in {<<>>, <<[uid |-> <<"a", "b", "c", "1", "2", "3">>]>>,
                     <<[uid |-> <<"u", "$", "2">>]>>},
        e \in Exprs,
        l \in {<<>>, <<<<<<<<"t", "e", "a", "m">>, <<"1">>>>>>>>},
        l2 \in {<<>>, <<<<<<<<"e", "U+0301">>, <<"\"", ",">>>>>>>>}}

\* The location arguments getRuleIdentifier is called with.
Locations ==
    { <<<<"m", "i", "m", "i", "r">>, <<"n", "s", "-", "a">>, <<"g", "r", "p">>>>,
      <<<<"c", "$", "p">>, <<>>, <<"g", "r", "p">>>> }

(***************************************************************************)
(* The rule operations as state machines.  SpecRules: a caller holds one   *)
(* record of any shape, classifies it, fingerprints it and derives its     *)
(* identifier.  SpecFingerprint: a caller holds a lotex rule and an edited *)
(* copy of it and fingerprints both.                                       *)
(***************************************************************************)
CodecIdle ==
    /\ location = NoValue
    /\ key = NoValue
    /\ parsed = NoValue

InitRules ==
    /\ rule \in AnyShapeRules
    /\ rule2 = NoValue
    /\ classes = NoValue
    /\ fp = NoValue
    /\ fp2 = NoValue
    /\ derived = NoValue
    /\ CodecIdle

InitFingerprint ==
    /\ rule \in LotexRules
    /\ rule2 \in Edits(rule)
    /\ classes = NoValue
    /\ fp = NoValue
    /\ fp2 = NoValue
    /\ derived = NoValue
    /\ CodecIdle

Classify ==
    /\ classes = NoValue
    /\ classes' = [kind |-> "classified",
                   alerting |-> isAlertingRulerRule(rule),
                   recording |-> isRecordingRulerRule(rule),
                   grafana |-> isGrafanaRulerRule(rule)]
    /\ UNCHANGED <<location, key, parsed, rule, rule2, fp, fp2, derived>>

HashRulerRule ==
    /\ fp = NoValue
    /\ fp' = hashRulerRule(rule)
    /\ UNCHANGED <<location, key, parsed, rule, rule2, classes, fp2, derived>>

HashSecondRule ==
    /\ fp2 = NoValue
    /\ fp2' = hashRulerRule(rule2)
    /\ UNCHANGED <<location, key, parsed, rule, rule2, classes, fp, derived>>

GetRuleIdentifier ==
    /\ derived = NoValue
    /\ \E loc \in Locations :
          derived' = [kind |-> "derived", args |-> loc,
                      outcome |-> getRuleIdentifier(loc[1], loc[2], loc[3], rule)]
    /\ UNCHANGED <<location, key, parsed, rule, rule2, classes, fp, fp2>>

NextRules == Classify \/ HashRulerRule \/ GetRuleIdentifier

SpecRules == InitRules /\ [][NextRules]_vars

NextFingerprint == HashRulerRule \/ HashSecondRule

SpecFingerprint == InitFingerprint /\ [][NextFingerprint]_vars

(***************************************************************************)
(* Properties of the codec                                                 *)
(***************************************************************************)
StringFields == {"ruleSourceName", "namespace", "groupName"}

IsNative(id) == isGrafanaRuleIdentifier(id)

IsComposite(id) == DOMAIN id = StringFields \cup {"ruleHash"}

Stringified == key # NoValue

ParsedBack == parsed # NoValue

\* '_DOLLAR' followed by a '$': escaping the '$' completes a placeholder that
\* starts at the '_'.
HalfPlaceholder == <<"_", "D", "O", "L", "L", "A", "R", "$">>

\* A string field that unesacapeDollars(escapeDollars(f)) gives back.
SafeField(f) == ~Contains(f, Placeholder) /\ ~Contains(f, HalfPlaceholder)

\* C1 as stated: parse(stringify(id)) = id for every Native identifier whose
\* uid holds no '$' and for every Composite identifier, whatever its string
\* fields.
C1_RoundTripAnyFields ==
    (ParsedBack /\ (IsNative(location) => CountDollars(location.uid) = 0))
        => parsed = Returned(location)

\* C1, amended: parse(stringify(id)) = id for every Native identifier whose uid
\* holds no '$' and for every Composite identifier none of whose string fields
\* contains '_DOLLAR_' or '_DOLLAR$'.
C1_RoundTrip ==
    (/\ ParsedBack
     /\ IsNative(location) => CountDollars(location.uid) = 0
     /\ IsComposite(location) => \A f \in StringFields : SafeField(location[f]))
        => parsed = Returned(location)

\* A Composite identifier with a '$' in a field and a negative ruleHash has
\* gone through stringify and parse and come back unchanged.
C1_Witness ==
    /\ ParsedBack
    /\ IsComposite(location)
    /\ \E f \in StringFields : CountDollars(location[f]) >= 2
    /\ location.ruleHash.val < 0
    /\ parsed = Returned(location)

\* C2: parseRuleIdentifier is decided by the number of '$' of its input
\* alone: none gives the Native identifier of the whole input, three give the
\* Composite identifier of the four unescaped parts, the fourth as a number,
\* and any other count throws.
C2_ParseDispatch ==
    ParsedBack =>
        LET input == key.value
            n     == CountDollars(input)
            parts == Split(input, "$")
        IN  /\ n = 0 => parsed = Returned([uid |-> input])
            /\ n = 3 =>
                  /\ parsed.kind = "returned"
                  /\ IsComposite(parsed.value)
                  /\ parsed.value.ruleSourceName = unesacapeDollars(parts[1])
                  /\ parsed.value.namespace = unesacapeDollars(parts[2])
                  /\ parsed.value.groupName = unesacapeDollars(parts[3])
                  /\ parsed.value.ruleHash = StringToNumber(unesacapeDollars(parts[4]))
            /\ n \notin {0, 3} =>
                  /\ parsed.kind = "threw"
                  /\ parsed.message = "Failed to parse rule location"
                  /\ parsed.input = input

\* An input of three parts has been refused.
C2_Witness ==
    /\ ParsedBack
    /\ CountDollars(key.value) = 2
    /\ parsed.kind = "threw"

\* C8: a Native uid is stringified unchanged, and when it holds a '$' the
\* round trip never gives the identifier back: parse throws for one, two or
\* more than three '$', and returns a Composite identifier for exactly three.
C8_NativeUidNotEscaped ==
    IsNative(location) =>
        LET n == CountDollars(location.uid)
        IN  /\ Stringified => key.value = location.uid
            /\ (ParsedBack /\ n >= 1) =>
                  /\ parsed # Returned(location)
                  /\ n # 3 => parsed.kind = "threw"
                  /\ n = 3 => parsed.kind = "returned" /\ IsComposite(parsed.value)

\* A Native uid with exactly three '$' has come back as a Composite identifier.
C8_Witness ==
    /\ IsNative(location)
    /\ CountDollars(location.uid) = 3
    /\ ParsedBack
    /\ parsed.kind = "returned"
    /\ IsComposite(parsed.value)

\* The Composite identifier id with its field f replaced by v.
WithField(id, f, v) == [id EXCEPT ![f] = v]

RECURSIVE PlaceholdersReplaced(_)
\* String s with every occurrence of '_DOLLAR_', read left to right, replaced
\* by '$'.
PlaceholdersReplaced(s) ==
    IF s = <<>> THEN <<>>
    ELSE IF OccursAt(s, Placeholder, 1)
         THEN <<"$">> \o PlaceholdersReplaced(SubSeq(s, Len(Placeholder) + 1, Len(s)))
    ELSE <<Head(s)>> \o PlaceholdersReplaced(Tail(s))

\* C9 as stated: when a string field of a Composite identifier contains
\* '_DOLLAR_', the round trip succeeds, returns another identifier, and the
\* field comes back with every occurrence of '_DOLLAR_' replaced by '$'; the
\* identifier with '$' in place of '_DOLLAR_' has the same key.
C9_PlaceholderReplacedInAnyField ==
    (ParsedBack /\ IsComposite(location)) =>
        \A f \in StringFields :
            Contains(location[f], Placeholder) =>
                /\ parsed.kind = "returned"
                /\ parsed.value # location
                /\ parsed.value[f] = PlaceholdersReplaced(location[f])
                /\ stringifyRuleIdentifier(
                       WithField(location, f, PlaceholdersReplaced(location[f]))) = key.value

\* C9, amended: when a string field of a Composite identifier contains
\* '_DOLLAR_', the round trip succeeds and returns another identifier, which
\* differs in that field; if the field does not also contain '_DOLLAR$', it
\* comes back with every occurrence of '_DOLLAR_' replaced by '$'; and the
\* distinct identifier with '$' in place of '_DOLLAR_' has the same key.
C9_PlaceholderNotEscaped ==
    (ParsedBack /\ IsComposite(location)) =>
        \A f \in StringFields :
            Contains(location[f], Placeholder) =>
                LET replaced == PlaceholdersReplaced(location[f])
                IN  /\ parsed.kind = "returned"
                    /\ IsComposite(parsed.value)
                    /\ parsed.value[f] # location[f]
                    /\ ~Contains(location[f], HalfPlaceholder)
                          => parsed.value[f] = replaced
                    /\ WithField(location, f, replaced) # location
                    /\ stringifyRuleIdentifier(WithField(location, f, replaced)) = key.value

\* A field holding two placeholders has come back as two '$'.
C9_Witness ==
    /\ ParsedBack
    /\ IsComposite(location)
    /\ location.namespace = Placeholder \o Placeholder
    /\ parsed.kind = "returned"
    /\ parsed.value.namespace = <<"$", "$">>

\* C10: the key of a Composite identifier holds exactly three '$', whatever
\* the fields, so parsing it never throws and gives a Composite identifier.
C10_CompositeKeyHasThreeDelimiters ==
    IsComposite(location) =>
        /\ Stringified => CountDollars(key.value) = 3
        /\ ParsedBack => parsed.kind = "returned" /\ IsComposite(parsed.value)

\* A Composite identifier with an empty field and a field full of '$' has
\* been parsed back as a Composite identifier.
C10_Witness ==
    /\ IsComposite(location)
    /\ location.ruleSourceName = <<>>
    /\ CountDollars(location.namespace) = 4
    /\ ParsedBack
    /\ parsed.kind = "returned"
    /\ IsComposite(parsed.value)

(***************************************************************************)
(* Properties of the classifiers, the fingerprint and getRuleIdentifier    *)
(***************************************************************************)
Classified == classes # NoValue

Hashed == fp # NoValue

HashedBoth == fp # NoValue /\ fp2 # NoValue

Derived == derived # NoValue

DistinguishingFields == {"alert", "record", "grafana_alert"}

\* How many of the three classifiers answered true.
TrueClassifiers ==
    (IF classes.alerting THEN 1 ELSE 0) + (IF classes.recording THEN 1 ELSE 0)
        + (IF classes.grafana THEN 1 ELSE 0)

UnsupportedMessage == "only recording and alerting ruler rules can be hashed"

\* C3 as stated: whatever combination of 'alert', 'record' and
\* 'grafana_alert' a record has, at most one classifier answers true.
C3_ClassifiersExclusive == Classified => TrueClassifiers <= 1

\* C3, amended: each classifier answers true exactly when its own field is
\* present, so as many classifiers are true as the record has distinguishing
\* fields: at most one for a record with at most one of them, none for a
\* record with none, and two or three for a record with two or three.
C3_ClassifiersFollowFields ==
    Classified =>
        /\ classes.alerting <=> "alert" \in DOMAIN rule
        /\ classes.recording <=> "record" \in DOMAIN rule
        /\ classes.grafana <=> "grafana_alert" \in DOMAIN rule
        /\ TrueClassifiers = Cardinality(DOMAIN rule \cap DistinguishingFields)
        /\ Cardinality(DOMAIN rule \cap DistinguishingFields) <= 1 => TrueClassifiers <= 1

\* A record with the native block alone has been classified as native only.
C3_Witness ==
    /\ Classified
    /\ DOMAIN rule \cap DistinguishingFields = {"grafana_alert"}
    /\ classes.grafana
    /\ TrueClassifiers = 1

\* C4 as stated: hashRulerRule throws for every record isGrafanaRulerRule
\* accepts and for every record of none of the three shapes, and returns a
\* fingerprint only for recording and alerting records.
C4_NativeAlwaysRejected ==
    Hashed =>
        /\ (isGrafanaRulerRule(rule)
             \/ DOMAIN rule \cap DistinguishingFields = {})
              => fp.kind = "threw" /\ fp.message = UnsupportedMessage
        /\ fp.kind = "returned" => isRecordingRulerRule(rule) \/ isAlertingRulerRule(rule)

\* C4, amended: hashRulerRule throws exactly for the records that have
\* neither 'record' nor 'alert' (a native record that has neither, and a
\* record of none of the three shapes), without calling hash; it returns a
\* fingerprint for every record that has 'record' or 'alert', also when the
\* record has the native block as well.
C4_UnsupportedVariant ==
    Hashed =>
        /\ fp.kind = "threw" <=> DOMAIN rule \cap {"record", "alert"} = {}
        /\ fp.kind = "threw" => fp.message = UnsupportedMessage /\ fp.hashed = <<>>
        /\ fp.kind = "returned" =>
              /\ isRecordingRulerRule(rule) \/ isAlertingRulerRule(rule)
              /\ Len(fp.hashed) = 1
              /\ fp.value = hash(fp.hashed[1])

\* hashRulerRule has refused a record that has the native block alone.
C4_Witness ==
    /\ Hashed
    /\ DOMAIN rule \cap DistinguishingFields = {"grafana_alert"}
    /\ fp.kind = "threw"

\* C5: getRuleIdentifier tries the native shape first and then returns the
\* uid without calling hash, also for a record that has 'alert' or 'record';
\* otherwise it returns the Composite identifier of its three location
\* arguments and hashRulerRule(rule), a ruleHash that no location argument
\* changes; and when hashRulerRule throws, so does getRuleIdentifier.
C5_GetRuleIdentifier ==
    Derived =>
        LET out == derived.outcome
            h   == hashRulerRule(rule)
        IN  /\ isGrafanaRulerRule(rule) =>
                  out = ReturnedAfter([uid |-> rule.grafana_alert.uid], <<>>)
            /\ (~isGrafanaRulerRule(rule) /\ h.kind = "returned") =>
                  /\ out.kind = "returned"
                  /\ out.value = [ruleSourceName |-> derived.args[1],
                                  namespace |-> derived.args[2],
                                  groupName |-> derived.args[3],
                                  ruleHash |-> h.value]
                  /\ Hashed => out.value.ruleHash = fp.value
                  /\ \A loc \in Locations :
                        getRuleIdentifier(loc[1], loc[2], loc[3], rule).value.ruleHash
                            = out.value.ruleHash
            /\ (~isGrafanaRulerRule(rule) /\ h.kind = "threw") =>
                  /\ out.kind = "threw"
                  /\ out.message = UnsupportedMessage

\* A record with the native block and an alert name has been given its uid
\* as identifier, and nothing was hashed.
C5_Witness ==
    /\ Derived
    /\ {"grafana_alert", "alert"} \subseteq DOMAIN rule
    /\ derived.outcome.kind = "returned"
    /\ derived.outcome.value = [uid |-> rule.grafana_alert.uid]
    /\ derived.outcome.hashed = <<>>

\* Mappings a and b hold the same key/value pairs.
SamePairs(a, b) ==
    /\ Len(a) = Len(b)
    /\ {a[i] : i \in 1..Len(a)} = {b[i] : i \in 1..Len(b)}

\* Optional mappings a and b are both undefined or hold the same pairs.
SameOptionalPairs(a, b) ==
    IF a = <<>> \/ b = <<>> THEN a = <<>> /\ b = <<>> ELSE SamePairs(a[1], b[1])

\* rule2 is rule with its labels or annotations inserted in another order.
Reordered ==
    /\ rule2 # rule
    /\ DOMAIN rule2 = DOMAIN rule
    /\ \A f \in DOMAIN rule \ {"labels", "annotations"} : rule2[f] = rule[f]
    /\ SameOptionalPairs(Field(rule, "labels"), Field(rule2, "labels"))
    /\ SameOptionalPairs(Field(rule, "annotations"), Field(rule2, "annotations"))

\* C6: mappings with unique keys and the same key/value pairs in another
\* insertion order have the same hashLabelsOrAnnotations string, so two
\* records that differ only in that order have the same fingerprint.
C6_OrderIndependent ==
    Reordered =>
        /\ hashLabelsOrAnnotations(Field(rule, "labels"))
              = hashLabelsOrAnnotations(Field(rule2, "labels"))
        /\ hashLabelsOrAnnotations(Field(rule, "annotations"))
              = hashLabelsOrAnnotations(Field(rule2, "annotations"))
        /\ HashedBoth => fp.value = fp2.value

\* rule2 is rule with its field f alone changed.
OnlyFieldChanged(f) ==
    /\ f \in DOMAIN rule
    /\ DOMAIN rule2 = DOMAIN rule
    /\ rule2[f] # rule[f]
    /\ \A g \in DOMAIN rule \ {f} : rule2[g] = rule[g]

\* rule2 is rule with its expr, its name or one label or annotation value
\* changed.
ContentChanged ==
    \/ \E f \in {"expr", "record", "alert"} : OnlyFieldChanged(f)
    \/ \E f \in {"labels", "annotations"} :
          OnlyFieldChanged(f) /\ rule2[f] \in ValueChanges(rule[f])

\* C7: changing the expr, the name or one label or annotation value of a
\* recording or alerting record changes the string that is hashed, and with
\* it the fingerprint.
C7_FingerprintSensitive ==
    (HashedBoth /\ ContentChanged) =>
        /\ fp.kind = "returned"
        /\ fp2.kind = "returned"
        /\ fp.hashed # fp2.hashed
        /\ fp.value # fp2.value

\* An alerting rule and its copy with one annotation value changed have been
\* given different fingerprints.
C7_Witness ==
    /\ HashedBoth
    /\ isAlertingRulerRule(rule)
    /\ OnlyFieldChanged("annotations")
    /\ rule2.annotations \in ValueChanges(rule.annotations)
    /\ fp.value # fp2.value

====
